---- MODULE Spec2Model ----
(***************************************************************************)
(* jetbase: the migration engine's lock manager, planner and executor.     *)
(*                                                                         *)
(* The database holds the singleton row of jetbase_lock, the rows of       *)
(* jetbase_migrations and the effects of the user's SQL.  The migrations   *)
(* directory holds versioned (V), runs-always (RA) and runs-on-change (RC) *)
(* files.  Engine processes run one command at a time; a command reads the *)
(* database and the directory to plan its work, then acquires the lock,    *)
(* runs one transaction per work item and releases the lock.  Every        *)
(* database transaction of the code is one atomic step of the model: what  *)
(* a transaction has executed is invisible to the other connections until  *)
(* it commits, and is gone when it rolls back.                             *)
(***************************************************************************)
EXTENDS Integers, Sequences, FiniteSets, TLC

\* ---------------------------------------------------------------- bounds
MaxVersion == 3     \* file names carry the versions 1 .. MaxVersion
MaxOps     == 3     \* commands started in one behaviour, all processes together
MaxEdits   == 1     \* changes the user makes to the migrations directory
NumStmts   == 2     \* statements in each section of a migration file

Procs == {"p1", "p2"}

\* SQL NULL in the columns version, locked_at and process_id
NoVersion == 0
NoTime    == 0
NoPid     == <<"NULL", 0>>

\* ------------------------------------------------------------------ files
VERSIONED      == "VERSIONED"
RUNS_ALWAYS    == "RUNS_ALWAYS"
RUNS_ON_CHANGE == "RUNS_ON_CHANGE"

Versions == 1..MaxVersion
VFile(v) == <<"V", v>>
RAFile   == <<"RA", 0>>
RCFile   == <<"RC", 0>>
NoFile   == <<"none", 0>>
\* a second file of each repeatable type, later in the alphabet than the first
RAFileB  == <<"RA", 1>>
RCFileB  == <<"RC", 1>>
Files    == {VFile(v) : v \in Versions} \cup {RAFile, RAFileB, RCFile, RCFileB}

\* _get_version_key_from_filename, on the version number the file name carries
get_version_key_from_filename(f) == f[2]

\* the type a file name's prefix stands for
MigrationTypeOf(f) ==
    IF f[1] = "V" THEN VERSIONED
    ELSE IF f[1] = "RA" THEN RUNS_ALWAYS ELSE RUNS_ON_CHANGE

VARIABLES
    tables,     \* TRUE once jetbase_migrations and jetbase_lock exist
    lock,       \* the row id=1 of jetbase_lock
    history,    \* the rows of jetbase_migrations, in order_executed order
    order_seq,  \* the identity column's last value
    clock,      \* the database's clock (applied_at, locked_at)
    userdb,     \* committed executions of each statement of each file
    disk,       \* the files in the migrations directory
    content,    \* each file's content, as the checksum of its upgrade section
    edits,      \* changes made to the directory so far
    ops,        \* commands started so far, per process
    pc,         \* where each process is in its command
    op,         \* the command each process runs
    pid,        \* process_id of migration_lock() (NoPid outside it)
    work,       \* the work items a command still has to run
    rowcount,   \* rows affected by the process's last UPDATE of jetbase_lock
    racing,     \* TRUE when another upgrade with pending work ran during this one
    result      \* how the process's last command ended

vars == <<tables, lock, history, order_seq, clock, userdb, disk, content, edits,
          ops, pc, op, pid, work, rowcount, racing, result>>

dbvars   == <<tables, lock, history, order_seq, clock, userdb>>
diskvars == <<disk, content, edits>>

\* ------------------------------------------------------------- sequences
RECURSIVE SortAsc(_)
SortAsc(S) ==
    IF S = {} THEN <<>>
    ELSE LET m == CHOOSE x \in S : \A y \in S : x <= y
         IN  <<m>> \o SortAsc(S \ {m})

Reverse(s) == [i \in 1..Len(s) |-> s[Len(s) + 1 - i]]

Range(s) == {s[i] : i \in 1..Len(s)}

Prefix(s, n) == SubSeq(s, 1, IF n < Len(s) THEN n ELSE Len(s))

\* str(n) of a version number: its decimal digits, as the file name carries them
RECURSIVE Digits(_)
Digits(n) == IF n < 10 THEN <<n>> ELSE Digits(n \div 10) \o <<n % 10>>

\* Python's `<` on two str: character by character, a proper prefix is the smaller
RECURSIVE str_lt(_, _)
str_lt(a, b) ==
    IF a = <<>> THEN b # <<>>
    ELSE IF b = <<>> THEN FALSE
    ELSE IF a[1] # b[1] THEN a[1] < b[1]
    ELSE str_lt(Tail(a), Tail(b))

\* the paths in the opposite order, as a directory walk may list them
WalkOrder(S) ==
    LET keys == SortAsc({f[2] : f \in S})
    IN  [i \in 1..Len(keys) |-> CHOOSE f \in S : f[2] = keys[Len(keys) + 1 - i]]

\* list.sort() of the paths of files that share a prefix: by the rest of the name
SortPaths(S) ==
    LET keys == SortAsc({f[2] : f \in S})
    IN  [i \in 1..Len(keys) |-> CHOOSE f \in S : f[2] = keys[i]]

\* ------------------------------------------------------------- lock table
\* WHERE clauses a defective statement would carry
AlwaysMatches(row, process_id) == TRUE
NeverMatches(row, process_id) == FALSE

\* an UPDATE that leaves the row as it finds it
LeaveLocked(row, process_id) == row
KeepRow(row) == row

Unlocked == [is_locked |-> FALSE, locked_at |-> NoTime, process_id |-> NoPid]

\* an INSERT OR REPLACE of the row id=1
ReplaceRow(row, exists) == Unlocked

\* INITIALIZE_LOCK_RECORD_STMT after CREATE TABLE IF NOT EXISTS: INSERT OR IGNORE
initialize_lock_record_stmt(row, exists) == IF exists THEN row ELSE Unlocked

\* ACQUIRE_LOCK_STMT: UPDATE ... WHERE id = 1 AND is_locked = 0
acquire_lock_matches(row, process_id) == ~row.is_locked

acquire_lock_stmt(row, process_id, now) ==
    IF acquire_lock_matches(row, process_id)
    THEN [is_locked |-> TRUE, locked_at |-> now, process_id |-> process_id]
    ELSE row

\* RELEASE_LOCK_STMT: UPDATE ... WHERE id = 1 AND process_id = :process_id
release_lock_matches(row, process_id) == row.process_id = process_id

release_lock_stmt(row, process_id) ==
    IF release_lock_matches(row, process_id) THEN Unlocked ELSE row

\* FORCE_UNLOCK_STMT: UPDATE ... WHERE id = 1
force_unlock_stmt(row) == Unlocked

\* ------------------------------------------------------- migrations table
Row(order, f, mtype, at, checksum) ==
    [order_executed |-> order,
     version        |-> IF mtype = VERSIONED THEN get_version_key_from_filename(f)
                        ELSE NoVersion,
     filename       |-> f,
     migration_type |-> mtype,
     applied_at     |-> at,
     checksum       |-> checksum]

VersionedRows(h) == SelectSeq(h, LAMBDA r : r.migration_type = VERSIONED)

\* MIGRATION_RECORDS_QUERY(ascending=False, migration_type=VERSIONED), first row
fetch_latest_versioned_migration(h) ==
    LET rows == Range(VersionedRows(h))
    IN  IF rows = {} THEN NoVersion
        ELSE (CHOOSE r \in rows : \A q \in rows :
                 \/ q.applied_at < r.applied_at
                 \/ q.applied_at = r.applied_at /\ q.order_executed <= r.order_executed
             ).version

\* GET_VERSION_CHECKSUMS_QUERY: (version, checksum) of the versioned rows, as applied
get_checksums_by_version(h) ==
    LET rows == VersionedRows(h)
    IN  [i \in 1..Len(rows) |-> <<rows[i].version, rows[i].checksum>>]

get_migrated_versions(h) ==
    LET rows == VersionedRows(h) IN [i \in 1..Len(rows) |-> rows[i].version]

\* the rows the rollback queries select from: the versioned rows
RollbackCandidates(h) == VersionedRows(h)

\* the query without DESC: the versions applied first
OldestVersions(h, limit) ==
    LET oldest == get_migrated_versions(RollbackCandidates(h))
    IN  IF limit < 0 THEN oldest ELSE Prefix(oldest, limit)

\* LATEST_VERSIONS_QUERY: the versions applied last, latest first, LIMIT :limit
\* (a negative LIMIT is no limit in SQLite)
get_latest_versions(h, limit) ==
    LET latest == Reverse(get_migrated_versions(RollbackCandidates(h)))
    IN  IF limit < 0 THEN latest ELSE Prefix(latest, limit)

\* the query with `>=`: the starting version and the versions applied after it
VersionsFrom(h, starting_version) ==
    LET rows == RollbackCandidates(h)
        at   == (CHOOSE r \in Range(rows) : r.version = starting_version).applied_at
    IN  Reverse(get_migrated_versions(SelectSeq(rows, LAMBDA r : r.applied_at >= at)))

\* LATEST_VERSIONS_BY_STARTING_VERSION_QUERY: the versions applied after the
\* starting version, latest first
get_latest_versions_by_starting_version(h, starting_version) ==
    LET rows == RollbackCandidates(h)
        at   == (CHOOSE r \in Range(rows) : r.version = starting_version).applied_at
    IN  Reverse(get_migrated_versions(SelectSeq(rows, LAMBDA r : r.applied_at > at)))

\* GET_RUNS_ALWAYS_MIGRATIONS_QUERY
get_existing_repeatable_always_migration_filenames(h) ==
    {r.filename : r \in {q \in Range(h) : q.migration_type = RUNS_ALWAYS}}

\* GET_RUNS_ON_CHANGE_MIGRATIONS_QUERY, as the dict filename -> checksum it is read into
get_existing_on_change_filenames_to_checksums(h) ==
    LET rows == SelectSeq(h, LAMBDA r : r.migration_type = RUNS_ON_CHANGE)
        names == {r.filename : r \in Range(rows)}
    IN  [f \in names |->
            LET last == CHOOSE i \in 1..Len(rows) :
                           /\ rows[i].filename = f
                           /\ \A j \in 1..Len(rows) : rows[j].filename = f => j <= i
            IN  rows[last].checksum]

\* MIGRATION_RECORDS_QUERY(all_repeatables=True)
fetch_repeatable_migrations(h) ==
    SelectSeq(h, LAMBDA r : r.migration_type \in {RUNS_ALWAYS, RUNS_ON_CHANGE})

\* INSERT_VERSION_STMT
insert_version_stmt(h, order, f, mtype, at, checksum) ==
    Append(h, Row(order, f, mtype, at, checksum))

\* DELETE_VERSION_STMT: DELETE ... WHERE version = :version
delete_version_stmt(h, version) == SelectSeq(h, LAMBDA r : r.version # version)

\* UPDATE_REPEATABLE_MIGRATION_STMT: WHERE filename = :filename AND migration_type = :type
update_repeatable_migration_stmt(h, f, mtype, at, checksum) ==
    [i \in 1..Len(h) |->
        IF h[i].filename = f /\ h[i].migration_type = mtype
        THEN [h[i] EXCEPT !.checksum = checksum, !.applied_at = at]
        ELSE h[i]]

\* an UPDATE that matches no row
KeepChecksums(h, sums) == h

\* REPAIR_MIGRATION_CHECKSUM_STMT for each (version, checksum) of the list
update_migration_checksums(h, sums) ==
    [i \in 1..Len(h) |->
        IF \E s \in sums : s[1] = h[i].version
        THEN [h[i] EXCEPT !.checksum = (CHOOSE s \in sums : s[1] = h[i].version)[2]]
        ELSE h[i]]

\* DELETE_MISSING_VERSION_STMT for each version of the list
delete_missing_versions(h, versions) ==
    SelectSeq(h, LAMBDA r : r.version \notin versions)

\* a DELETE without the test of the migration type, that takes the versioned
\* rows along
DeleteVersionedToo(h, filenames) ==
    SelectSeq(h, LAMBDA r : r.migration_type # VERSIONED /\ r.filename \notin filenames)

\* DELETE_MISSING_REPEATABLE_STMT for each file name of the list
delete_missing_repeatables(h, filenames) ==
    SelectSeq(h, LAMBDA r : ~(r.migration_type # VERSIONED /\ r.filename \in filenames))

\* ---------------------------------------------------------- file catalog
DiskVersions(d) == {get_version_key_from_filename(f) : f \in {g \in d : g[1] = "V"}}

\* the catalog with a strict lower bound: `>` where the code has `>=`
FilepathsAbove(d, version_to_start_from, end_version) ==
    SortAsc({v \in DiskVersions(d) :
               /\ (end_version # NoVersion => ~(v > end_version))
               /\ (version_to_start_from # NoVersion => v > version_to_start_from)})

\* get_migration_filepaths_by_version: the versions on disk between the two
\* (inclusive) bounds, in ascending numeric order; NoVersion is "no bound"
get_migration_filepaths_by_version(d, version_to_start_from, end_version) ==
    SortAsc({v \in DiskVersions(d) :
               /\ (end_version # NoVersion => ~(v > end_version))
               /\ (version_to_start_from # NoVersion => v >= version_to_start_from)})

get_repeatable_always_filepaths(d) == SortPaths({f \in d : f[1] = "RA"})

get_repeatable_filenames(d) == {f \in d : f[1] \in {"RA", "RC"}}

\* the runs-on-change paths without the changed_only filter
AllRunsOnChange(d, c, h) == SortPaths({f \in d : f[1] = "RC"})

\* get_runs_on_change_filepaths(changed_only=True)
get_runs_on_change_filepaths(d, c, h) ==
    LET existing == get_existing_on_change_filenames_to_checksums(h)
        changed(f) == ~(f \in DOMAIN existing /\ existing[f] = c[f])
    IN  SortPaths({f \in d : f[1] = "RC" /\ changed(f)})

\* -------------------------------------------------------------- validator
\* the comparison of the versions alone
VersionCheckAt(versions, sums, c, index) ==
    IF index > Len(sums) THEN "IndexError"
    ELSE IF versions[index] # sums[index][1] THEN "MigrationVersionMismatch"
    ELSE "ok"

\* the outcome of comparing file `index` of the catalog with row `index`
ChecksumCheckAt(versions, sums, c, index) ==
    IF index > Len(sums) THEN "IndexError"
    ELSE IF versions[index] # sums[index][1] THEN "MigrationVersionMismatch"
    ELSE IF c[VFile(versions[index])] # sums[index][2] THEN "MigrationChecksumMismatch"
    ELSE "ok"

\* validate_current_migration_files_match_checksums: the first file that fails
validate_current_migration_files_match_checksums(versions, sums, c) ==
    LET bad == {i \in 1..Len(versions) : ChecksumCheckAt(versions, sums, c, i) # "ok"}
    IN  IF bad = {} THEN "ok"
        ELSE ChecksumCheckAt(versions, sums, c, CHOOSE i \in bad : \A j \in bad : i <= j)

validate_no_new_migration_files_with_lower_version_than_latest_migration(versions, migrated, latest) ==
    IF \E v \in Range(versions) :
           str_lt(Digits(v), Digits(latest)) /\ v \notin Range(migrated)
    THEN "OutOfOrderMigration" ELSE "ok"

\* a check that finds every file
AlwaysPresent(migrated, versions) == "ok"

validate_migrated_versions_in_current_migration_files(migrated, versions) ==
    IF \E v \in Range(migrated) : v \notin Range(versions)
    THEN "FileNotFound" ELSE "ok"

validate_migrated_repeatable_versions_in_migration_files(migrated, filenames) ==
    IF \E f \in migrated : f \notin filenames THEN "FileNotFound" ELSE "ok"

\* run_upgrade_validations / run_migration_validations
run_migration_validations(h, d, c, latest, skip_validation, skip_checksum_validation, skip_file_validation) ==
    LET versions == get_migration_filepaths_by_version(d, NoVersion, NoVersion)
        migrated == get_migrated_versions(h)
        order    == validate_no_new_migration_files_with_lower_version_than_latest_migration(
                        versions, migrated, latest)
        present  == validate_migrated_versions_in_current_migration_files(
                        migrated, versions)
        repeat   == validate_migrated_repeatable_versions_in_migration_files(
                        {r.filename : r \in Range(fetch_repeatable_migrations(h))},
                        get_repeatable_filenames(d))
        files    == IF skip_file_validation THEN "ok"
                    ELSE IF order # "ok" THEN order
                    ELSE IF present # "ok" THEN present ELSE repeat
        sums     == IF skip_checksum_validation THEN "ok"
                    ELSE validate_current_migration_files_match_checksums(
                             get_migration_filepaths_by_version(d, NoVersion, latest),
                             get_checksums_by_version(h), c)
    IN  IF skip_validation THEN "ok"
        ELSE IF files # "ok" THEN files ELSE sums

\* get_config(): the three skip settings of the configuration
Config(skip_validation, skip_checksum_validation, skip_file_validation) ==
    [skip_validation          |-> skip_validation,
     skip_checksum_validation |-> skip_checksum_validation,
     skip_file_validation     |-> skip_file_validation]

\* the validations gated by the arguments alone
ArgumentsOnly(h, d, c, latest, skip_validation, skip_checksum_validation, skip_file_validation, config) ==
    run_migration_validations(h, d, c, latest, skip_validation,
                              skip_checksum_validation, skip_file_validation)

\* run_upgrade_validations with the configuration it reads: each test is
\* `not <argument> and not <setting>`
run_upgrade_validations(h, d, c, latest, skip_validation, skip_checksum_validation, skip_file_validation, config) ==
    run_migration_validations(h, d, c, latest,
        skip_validation \/ config.skip_validation,
        skip_checksum_validation \/ config.skip_checksum_validation,
        skip_file_validation \/ config.skip_file_validation)

\* ---------------------------------------------------------------- planner
\* a work item: one transaction of the guarded block
Item(kind, f, files, sums) == [kind |-> kind, file |-> f, files |-> files, sums |-> sums]

UsesFile(item) == item.kind \in {"upgrade", "update", "rollback"}

\* an optional count: None, or Some(n)
NoCount   == <<>>
Some(n)   == <<n>>
\* Python's `if count:`
Truthy(count) == count # NoCount /\ count[1] # 0

Plan(res, items) == [result |-> res, work |-> items]

\* the test `if count and to_version`
BothTruthy(count, to_version) == Truthy(count) /\ to_version # NoVersion

\* `if count is not None and to_version is not None`
both_specified(count, to_version) == count # NoCount /\ to_version # NoVersion

\* a loop that breaks before it appends the entry of to_version
VersionsBelow(pending, to_version) ==
    SubSeq(pending, 1, (CHOOSE i \in 1..Len(pending) : pending[i] = to_version) - 1)

\* the loop `for file_version ...: append; if file_version == to_version: break`
versions_up_to(pending, to_version) ==
    SubSeq(pending, 1, CHOOSE i \in 1..Len(pending) : pending[i] = to_version)

\* upgrade_cmd up to `if not dry_run`: the result "ok" carries the work set
upgrade_plan(h, d, c, count, to_version, skip_validation, skip_checksum_validation, skip_file_validation) ==
    LET latest   == fetch_latest_versioned_migration(h)
        valid    == IF latest # NoVersion
                    THEN run_migration_validations(h, d, c, latest, skip_validation,
                             skip_checksum_validation, skip_file_validation)
                    ELSE "ok"
        from     == get_migration_filepaths_by_version(d, latest, NoVersion)
        pending  == IF latest # NoVersion /\ from # <<>> THEN Tail(from) ELSE from
        bounded  == IF Truthy(count) THEN Prefix(pending, count[1])
                    ELSE IF to_version # NoVersion THEN versions_up_to(pending, to_version)
                    ELSE pending
        always   == get_repeatable_always_filepaths(d)
        existing_always == get_existing_repeatable_always_migration_filenames(h)
        on_change == get_runs_on_change_filepaths(d, c, h)
        existing_on_change == DOMAIN get_existing_on_change_filenames_to_checksums(h)
        repeatable(fs, existing) ==
            [i \in 1..Len(fs) |->
                Item(IF fs[i] \in existing THEN "update" ELSE "upgrade", fs[i], {}, {})]
    IN  IF both_specified(count, to_version) THEN Plan("InvalidArgument", <<>>)
        ELSE IF Truthy(count) /\ count[1] < 1 THEN Plan("InvalidArgument", <<>>)
        ELSE IF valid # "ok" THEN Plan(valid, <<>>)
        ELSE IF ~Truthy(count) /\ to_version # NoVersion
                /\ to_version \notin Range(pending) THEN Plan("FileNotFound", <<>>)
        ELSE Plan("ok",
                  [i \in 1..Len(bounded) |-> Item("upgrade", VFile(bounded[i]), {}, {})]
                  \o repeatable(always, existing_always)
                  \o repeatable(on_change, existing_on_change))

\* a check of the newest selected version only
NewestFound(latest, found) == latest[1] \in Range(found)

\* `for version in latest_migration_versions: if version not in versions_to_rollback`
rollback_files_found(latest, found) == \A v \in Range(latest) : v \in Range(found)

\* rollback_cmd up to `if not dry_run`
rollback_plan(h, d, count, to_version) ==
    LET limit    == IF count = NoCount /\ to_version = NoVersion THEN Some(1) ELSE count
        known    == to_version \in Range(get_migrated_versions(h))
        latest   == IF Truthy(limit) THEN get_latest_versions(h, limit[1])
                    ELSE IF to_version # NoVersion /\ known
                         THEN get_latest_versions_by_starting_version(h, to_version)
                    ELSE <<>>
        found    == get_migration_filepaths_by_version(
                        d, latest[Len(latest)], latest[1])
    IN  IF both_specified(count, to_version) THEN Plan("InvalidArgument", <<>>)
        ELSE IF ~Truthy(limit) /\ to_version # NoVersion /\ ~known
             THEN Plan("VersionNotFound", <<>>)
        ELSE IF latest = <<>> THEN Plan("ok", <<>>)
        ELSE IF ~rollback_files_found(latest, found)
             THEN Plan("VersionNotFound", <<>>)
        ELSE Plan("ok", [i \in 1..Len(found) |->
                            Item("rollback", VFile(Reverse(found)[i]), {}, {})])

\* fix_files_cmd up to `if audit_only`
fix_files_plan(h, d) ==
    LET missing_versions ==
            {v \in Range(get_migrated_versions(h)) : v \notin DiskVersions(d)}
        missing_repeatables ==
            {r.filename : r \in {q \in Range(fetch_repeatable_migrations(h)) :
                                    q.filename \notin get_repeatable_filenames(d)}}
    IN  Plan("ok",
             (IF missing_versions = {} THEN <<>>
              ELSE <<Item("delete_missing_versions", NoFile,
                          {VFile(v) : v \in missing_versions}, {})>>)
             \o (IF missing_repeatables = {} THEN <<>>
                 ELSE <<Item("delete_missing_repeatables", NoFile,
                             missing_repeatables, {})>>))

\* core.validation.fix_files: the versioned rows only
core_fix_files_plan(h, d) ==
    LET missing_versions ==
            {v \in Range(get_migrated_versions(h)) : v \notin DiskVersions(d)}
    IN  Plan("ok",
             IF missing_versions = {} THEN <<>>
             ELSE <<Item("delete_missing_versions", NoFile,
                         {VFile(v) : v \in missing_versions}, {})>>)

\* fix_checksums_cmd up to `if audit_only`
fix_checksums_plan(h, d, c) ==
    LET sums     == get_checksums_by_version(h)
        latest   == sums[Len(sums)][1]
        valid    == run_migration_validations(h, d, c, latest, FALSE, TRUE, FALSE)
        versions == get_migration_filepaths_by_version(d, NoVersion, latest)
        mismatch == {i \in 1..Len(versions) :
                        i > Len(sums) \/ versions[i] # sums[i][1]}
        repair   == {<<versions[i], c[VFile(versions[i])]>> : i \in
                        {j \in 1..Len(versions) : c[VFile(versions[j])] # sums[j][2]}}
    IN  IF sums = <<>> THEN Plan("ok", <<>>)
        ELSE IF valid # "ok" THEN Plan(valid, <<>>)
        ELSE IF mismatch # {}
             THEN Plan(IF \E i \in mismatch : i > Len(sums) /\ \A j \in mismatch : i <= j
                       THEN "IndexError" ELSE "MigrationVersionMismatch", <<>>)
        ELSE IF repair = {} THEN Plan("ok", <<>>)
        ELSE Plan("ok", <<Item("update_migration_checksums", NoFile, {}, repair)>>)

\* --------------------------------------------------------------- executor
Sections == {"upgrade", "rollback"}
Effects  == Files \X Sections \X (1..NumStmts)

\* the section of its file a work item executes
SectionOf(item) == IF item.kind = "rollback" THEN "rollback" ELSE "upgrade"

\* the database after the first n statements of a section have taken effect
Executed(db, f, section, n) ==
    [e \in Effects |->
        IF e[1] = f /\ e[2] = section /\ e[3] <= n THEN db[e] + 1 ELSE db[e]]

\* a connection in autocommit: what has executed stays
PartialCommit(db, f, section, n) == Executed(db, f, section, n)

\* engine.begin(): the block's statements persist when it returns ...
commit(db, f, section, n) == Executed(db, f, section, n)

\* ... and none of them does when it raises
rollback(db, f, section, n) == db

\* the history after the row mutation of run_migration / run_update_repeatable_migration
RowMutation(h, item, order, at, checksum) ==
    CASE item.kind = "upgrade" ->
             insert_version_stmt(h, order, item.file, MigrationTypeOf(item.file),
                                 at, checksum)
      [] item.kind = "update" ->
             update_repeatable_migration_stmt(h, item.file, MigrationTypeOf(item.file),
                                              at, checksum)
      [] item.kind = "rollback" ->
             delete_version_stmt(h, get_version_key_from_filename(item.file))

\* the migrations table, with the identity column's last value and the clock
Database(h, order, at) == [history |-> h, order_seq |-> order, clock |-> at]

\* the migrations table after the transaction of one work item has committed
Transaction(db, item, c) ==
    Database(RowMutation(db.history, item, db.order_seq + 1, db.clock + 1, c[item.file]),
             IF item.kind = "upgrade" THEN db.order_seq + 1 ELSE db.order_seq,
             db.clock + 1)

\* the history after a repair transaction
Repair(h, item) ==
    CASE item.kind = "delete_missing_versions" ->
             delete_missing_versions(
                 h, {get_version_key_from_filename(f) : f \in item.files})
      [] item.kind = "delete_missing_repeatables" ->
             delete_missing_repeatables(h, item.files)
      [] item.kind = "update_migration_checksums" ->
             update_migration_checksums(h, item.sums)

TotalOps == ops["p1"] + ops["p2"]

CanStart(p) == pc[p] \in {"idle", "done"} /\ TotalOps < MaxOps

\* create_migrations_table_if_not_exists(); create_lock_table_if_not_exists()
EnsureTables ==
    /\ tables' = TRUE
    /\ lock' = initialize_lock_record_stmt(lock, tables)

\* a command begins: its process leaves "idle"/"done" with a fresh local state
Begin(p, name) ==
    /\ CanStart(p)
    /\ ops' = [ops EXCEPT ![p] = ops[p] + 1]
    /\ op' = [op EXCEPT ![p] = name]
    /\ pid' = [pid EXCEPT ![p] = NoPid]
    /\ rowcount' = [rowcount EXCEPT ![p] = -1]

\* the command ends before the guarded block
Return(p, res) ==
    /\ pc' = [pc EXCEPT ![p] = "done"]
    /\ result' = [result EXCEPT ![p] = res]
    /\ work' = [work EXCEPT ![p] = <<>>]
    /\ racing' = [racing EXCEPT ![p] = FALSE]

\* another process's upgrade is between its plan and its return
UpgradeUnderWay(p) ==
    \E q \in Procs \ {p} : op[q] = "upgrade" /\ pc[q] \in {"acquire", "body", "release"}

\* the command goes on to `with migration_lock():`
Enter(p, items) ==
    /\ pc' = [pc EXCEPT ![p] = "acquire"]
    /\ result' = [result EXCEPT ![p] = "running"]
    /\ work' = [work EXCEPT ![p] = items]
    /\ racing' = IF op'[p] = "upgrade" /\ UpgradeUnderWay(p)
                 THEN [q \in Procs |-> TRUE]
                 ELSE [racing EXCEPT ![p] = FALSE]

\* an upgrade that enters `with migration_lock():` whatever it has planned
AlwaysLocks(p, count, to_version, dry_run, skip_validation, skip_checksum_validation, skip_file_validation) ==
    LET plan == upgrade_plan(history, disk, content, count, to_version,
                    skip_validation, skip_checksum_validation, skip_file_validation)
    IN  /\ Begin(p, "upgrade")
        /\ EnsureTables
        /\ IF plan.result # "ok" THEN Return(p, plan.result)
           ELSE Enter(p, plan.work)
        /\ UNCHANGED <<history, order_seq, clock, userdb, diskvars>>

upgrade_cmd(p, count, to_version, dry_run, skip_validation, skip_checksum_validation, skip_file_validation) ==
    LET plan == upgrade_plan(history, disk, content, count, to_version,
                    skip_validation, skip_checksum_validation, skip_file_validation)
    IN  /\ Begin(p, "upgrade")
        /\ IF plan.result = "InvalidArgument"
           THEN UNCHANGED <<tables, lock>> ELSE EnsureTables
        /\ IF plan.result # "ok" THEN Return(p, plan.result)
           ELSE IF dry_run \/ plan.work = <<>> THEN Return(p, "ok")
           ELSE Enter(p, plan.work)
        /\ UNCHANGED <<history, order_seq, clock, userdb, diskvars>>

rollback_cmd(p, count, to_version, dry_run) ==
    LET plan == rollback_plan(history, disk, count, to_version)
    IN  /\ Begin(p, "rollback")
        /\ EnsureTables
        /\ IF plan.result # "ok" THEN Return(p, plan.result)
           ELSE IF dry_run \/ plan.work = <<>> THEN Return(p, "ok")
           ELSE Enter(p, plan.work)
        /\ UNCHANGED <<history, order_seq, clock, userdb, diskvars>>

fix_files_cmd(p, audit_only) ==
    LET plan == fix_files_plan(history, disk)
    IN  /\ Begin(p, "fix_files")
        /\ EnsureTables
        /\ IF audit_only \/ plan.work = <<>> THEN Return(p, "ok")
           ELSE Enter(p, plan.work)
        /\ UNCHANGED <<history, order_seq, clock, userdb, diskvars>>

\* fix_checksums_cmd: audit_only prints its report and falls through to the repair
fix_checksums_cmd(p, audit_only) ==
    LET plan == fix_checksums_plan(history, disk, content)
    IN  /\ Begin(p, "fix_checksums")
        /\ IF ~tables THEN Return(p, "DatabaseError")
           ELSE IF plan.result # "ok" THEN Return(p, plan.result)
           ELSE IF plan.work = <<>> THEN Return(p, "ok")
           ELSE Enter(p, plan.work)
        /\ UNCHANGED <<dbvars, diskvars>>

\* core.validation.fix_files: deletes outside migration_lock()
fix_files(p, audit_only) ==
    LET plan == core_fix_files_plan(history, disk)
    IN  /\ Begin(p, "core_fix_files")
        /\ IF ~tables THEN Return(p, "DatabaseError")
           ELSE IF audit_only \/ plan.work = <<>> THEN Return(p, "ok")
           ELSE /\ pc' = [pc EXCEPT ![p] = "body"]
                /\ result' = [result EXCEPT ![p] = "running"]
                /\ work' = [work EXCEPT ![p] = plan.work]
                /\ racing' = [racing EXCEPT ![p] = FALSE]
        /\ UNCHANGED <<dbvars, diskvars>>

\* unlock_cmd
unlock_cmd(p) ==
    /\ Begin(p, "unlock")
    /\ lock' = IF tables THEN force_unlock_stmt(lock) ELSE lock
    /\ Return(p, "ok")
    /\ UNCHANGED <<tables, history, order_seq, clock, userdb, diskvars>>

\* migrations_table_exists / lock_table_exists: whether the table is there
migrations_table_exists(exists) == exists
lock_table_exists(exists) == exists

\* the row the lock-status statement reads, taken as locked
ReportLocked(row) == TRUE

\* CHECK_LOCK_STATUS_STMT and the test `row and row[0]`
check_lock_status_stmt(row) == row.is_locked

\* a current that reports a version whenever the table exists
ReportsLatest(p) ==
    /\ Begin(p, "current")
    /\ Return(p, IF migrations_table_exists(tables)
                 THEN "Latest migration version"
                 ELSE "No migrations have been applied yet.")
    /\ UNCHANGED <<dbvars, diskvars>>

\* current_cmd: the latest versioned row, or none (no table, no row)
current_cmd(p) ==
    /\ Begin(p, "current")
    /\ Return(p, IF migrations_table_exists(tables)
                    /\ fetch_latest_versioned_migration(history) # NoVersion
                 THEN "Latest migration version"
                 ELSE "No migrations have been applied yet.")
    /\ UNCHANGED <<dbvars, diskvars>>

\* lock_status_cmd
lock_status_cmd(p) ==
    /\ Begin(p, "lock_status")
    /\ Return(p, IF ~lock_table_exists(tables) \/ ~migrations_table_exists(tables)
                 THEN "Status: UNLOCKED"
                 ELSE IF check_lock_status_stmt(lock) THEN "Status: LOCKED"
                 ELSE "Status: UNLOCKED")
    /\ UNCHANGED <<dbvars, diskvars>>

\* a lock that is given up when its holder goes away
ReleasedOnExit(p) ==
    /\ pc[p] \in {"body", "release"}
    /\ pid[p] # NoPid
    /\ lock' = Unlocked
    /\ pc' = [pc EXCEPT ![p] = "done"]
    /\ result' = [result EXCEPT ![p] = "killed"]
    /\ work' = [work EXCEPT ![p] = <<>>]
    /\ pid' = [pid EXCEPT ![p] = NoPid]
    /\ UNCHANGED <<tables, history, order_seq, clock, userdb, diskvars,
                   ops, op, rowcount, racing>>

\* the process is killed inside `with migration_lock():`: its `finally` never
\* runs and no statement of it reaches the database any more
killed(p) ==
    /\ pc[p] \in {"body", "release"}
    /\ pid[p] # NoPid
    /\ pc' = [pc EXCEPT ![p] = "done"]
    /\ result' = [result EXCEPT ![p] = "killed"]
    /\ work' = [work EXCEPT ![p] = <<>>]
    /\ pid' = [pid EXCEPT ![p] = NoPid]
    /\ UNCHANGED <<dbvars, diskvars, ops, op, rowcount, racing>>

\* acquire_lock, called by migration_lock
acquire_lock(p) ==
    LET process_id == <<p, ops[p]>>
        acquired   == acquire_lock_matches(lock, process_id)
    IN  /\ pc[p] = "acquire"
        /\ lock' = acquire_lock_stmt(lock, process_id, clock)
        /\ rowcount' = [rowcount EXCEPT ![p] = IF acquired THEN 1 ELSE 0]
        /\ IF acquired
           THEN /\ pid' = [pid EXCEPT ![p] = process_id]
                /\ pc' = [pc EXCEPT ![p] = "body"]
                /\ UNCHANGED <<result, work>>
           ELSE /\ pid' = pid
                /\ pc' = [pc EXCEPT ![p] = "done"]
                /\ result' = [result EXCEPT ![p] = "AlreadyLocked"]
                /\ work' = [work EXCEPT ![p] = <<>>]
        /\ UNCHANGED <<tables, history, order_seq, clock, userdb, diskvars,
                       ops, op, racing>>

Finished(res) == IF res = "running" THEN "ok" ELSE res

\* the loop over the work items swallows the exception and goes on
KeepGoing(p, res) ==
    /\ work' = [work EXCEPT ![p] = Tail(work[p])]
    /\ result' = [result EXCEPT ![p] = res]
    /\ pc' = [pc EXCEPT ![p] = IF Tail(work[p]) # <<>> THEN "body" ELSE "release"]

\* where the guarded block goes after a transaction: on to the next work item,
\* out through `finally` when the items are done or the transaction raised,
\* or (outside migration_lock) back to the caller
After(p, res) ==
    LET items == IF res = "running" THEN Tail(work[p]) ELSE <<>>
    IN  /\ work' = [work EXCEPT ![p] = items]
        /\ result' = [result EXCEPT ![p] =
                        IF pid[p] = NoPid /\ items = <<>> THEN Finished(res) ELSE res]
        /\ pc' = [pc EXCEPT ![p] =
                    IF items # <<>> THEN "body"
                    ELSE IF pid[p] # NoPid THEN "release"
                    ELSE "done"]

\* parse_*_statements(file_path) finds no file: the guarded block raises
parse_raises(p) ==
    LET item == Head(work[p])
    IN  /\ pc[p] = "body"
        /\ UsesFile(item)
        /\ item.file \notin disk
        /\ After(p, "FileNotFound")
        /\ UNCHANGED <<dbvars, diskvars, ops, op, pid, rowcount, racing>>

\* run_migration / run_update_repeatable_migration: the statements of the file's
\* section, then the row mutation, then the commit of `with get_db_connection()`
run_migration(p) ==
    LET item == Head(work[p])
        db   == Transaction(Database(history, order_seq, clock), item, content)
    IN  /\ pc[p] = "body"
        /\ UsesFile(item)
        /\ item.file \in disk
        /\ userdb' = commit(userdb, item.file, SectionOf(item), NumStmts)
        /\ history' = db.history
        /\ order_seq' = db.order_seq
        /\ clock' = db.clock
        /\ After(p, "running")
        /\ UNCHANGED <<tables, lock, diskvars, ops, op, pid, rowcount, racing>>

\* the same transaction when the statement after the first n raises
run_migration_raises(p, n) ==
    LET item == Head(work[p])
    IN  /\ pc[p] = "body"
        /\ UsesFile(item)
        /\ item.file \in disk
        /\ userdb' = rollback(userdb, item.file, SectionOf(item), n)
        /\ After(p, "DatabaseError")
        /\ UNCHANGED <<tables, lock, history, order_seq, clock, diskvars,
                       ops, op, pid, rowcount, racing>>

\* delete_missing_versions / delete_missing_repeatables / update_migration_checksums
repair(p) ==
    LET item == Head(work[p])
    IN  /\ pc[p] = "body"
        /\ ~UsesFile(item)
        /\ history' = Repair(history, item)
        /\ After(p, "running")
        /\ UNCHANGED <<tables, lock, order_seq, clock, userdb, diskvars,
                       ops, op, pid, rowcount, racing>>

\* a repair transaction raises
repair_raises(p) ==
    /\ pc[p] = "body"
    /\ ~UsesFile(Head(work[p]))
    /\ After(p, "DatabaseError")
    /\ UNCHANGED <<dbvars, diskvars, ops, op, pid, rowcount, racing>>

\* the `finally` of migration_lock: release_lock(process_id)
release_lock(p) ==
    /\ pc[p] = "release"
    /\ lock' = release_lock_stmt(lock, pid[p])
    /\ rowcount' = [rowcount EXCEPT ![p] =
                       IF release_lock_matches(lock, pid[p]) THEN 1 ELSE 0]
    /\ pc' = [pc EXCEPT ![p] = "done"]
    /\ pid' = [pid EXCEPT ![p] = NoPid]
    /\ result' = [result EXCEPT ![p] = Finished(result[p])]
    /\ UNCHANGED <<tables, history, order_seq, clock, userdb, diskvars,
                   ops, op, work, racing>>

\* ------------------------------------------------------------ environment
\* the user deletes a migration file
RemoveFile(f) ==
    /\ edits < MaxEdits
    /\ f \in disk
    /\ disk' = disk \ {f}
    /\ edits' = edits + 1
    /\ UNCHANGED <<dbvars, content, ops, pc, op, pid, work, rowcount, racing, result>>

\* the user edits the upgrade section of a migration file: its checksum is a new one
EditFile(f) ==
    /\ edits < MaxEdits
    /\ f \in disk
    /\ content' = [content EXCEPT ![f] = content[f] + 1]
    /\ edits' = edits + 1
    /\ UNCHANGED <<dbvars, disk, ops, pc, op, pid, work, rowcount, racing, result>>

\* the user adds a migration file to the directory
AddFile(f) ==
    /\ edits < MaxEdits
    /\ f \notin disk
    /\ disk' = disk \cup {f}
    /\ edits' = edits + 1
    /\ UNCHANGED <<dbvars, content, ops, pc, op, pid, work, rowcount, racing, result>>

\* ---------------------------------------------------------- specification
InitialCatalogs == {{VFile(1), RAFile}}

\* before the first command: no table, an empty user database, a directory
Start(catalogs) ==
    /\ tables = FALSE
    /\ lock = Unlocked
    /\ history = <<>>
    /\ order_seq = 0
    /\ clock = 1
    /\ userdb = [e \in Effects |-> 0]
    /\ disk \in catalogs
    /\ content = [f \in Files |-> 1]
    /\ edits = 0
    /\ ops = [p \in Procs |-> 0]
    /\ pc = [p \in Procs |-> "idle"]
    /\ op = [p \in Procs |-> "none"]
    /\ pid = [p \in Procs |-> NoPid]
    /\ work = [p \in Procs |-> <<>>]
    /\ rowcount = [p \in Procs |-> -1]
    /\ racing = [p \in Procs |-> FALSE]
    /\ result = [p \in Procs |-> "none"]

Init == Start(InitialCatalogs)

\* the commands a process may start, with the arguments the model draws
Command(p) ==
    \/ \E count \in {NoCount, Some(1)}, dry_run \in BOOLEAN :
           upgrade_cmd(p, count, NoVersion, dry_run, FALSE, FALSE, FALSE)
    \/ \E dry_run \in BOOLEAN : rollback_cmd(p, NoCount, NoVersion, dry_run)
    \/ \E audit_only \in BOOLEAN : fix_files_cmd(p, audit_only)
    \/ \E audit_only \in BOOLEAN : fix_checksums_cmd(p, audit_only)
    \/ fix_files(p, FALSE)

\* a step of a command under way
Step(p) ==
    \/ acquire_lock(p)
    \/ parse_raises(p)
    \/ run_migration(p)
    \/ \E n \in 0..NumStmts : run_migration_raises(p, n)
    \/ repair(p)
    \/ repair_raises(p)
    \/ release_lock(p)

Environment ==
    \/ \E f \in {VFile(1), RAFile} : RemoveFile(f)
    \/ EditFile(VFile(1))

NextNoUnlock ==
    \/ \E p \in Procs : Command(p)
    \/ \E p \in Procs : Step(p)
    \/ Environment

Next ==
    \/ NextNoUnlock
    \/ \E p \in Procs : unlock_cmd(p)

\* every command, force-unlock included
Spec == Init /\ [][Next]_vars

\* no operator runs `jetbase unlock`
SpecNoUnlock == Init /\ [][NextNoUnlock]_vars

\* one process runs its commands one after the other, with every argument that
\* selects the work, over a directory with several files of each type
Counts == {NoCount, Some(-1), Some(0), Some(1), Some(2)}

SequentialCatalogs ==
    {Files, Files \ {VFile(2)}}

InitSequential == Start(SequentialCatalogs)

\* (count, to_version): a count alone, a version alone, and both
Selections ==
    {<<count, NoVersion>> : count \in Counts}
        \cup {<<NoCount, v>> : v \in Versions}
        \cup {<<count, 1>> : count \in Counts \ {NoCount}}

SequentialCommand(p) ==
    \/ \E sel \in Selections :
           upgrade_cmd(p, sel[1], sel[2], FALSE, FALSE, FALSE, FALSE)
    \/ upgrade_cmd(p, NoCount, NoVersion, FALSE, FALSE, FALSE, TRUE)
    \/ \E sel \in Selections : rollback_cmd(p, sel[1], sel[2], FALSE)

\* every transaction of the guarded block commits
SequentialStep(p) ==
    \/ acquire_lock(p)
    \/ run_migration(p)
    \/ release_lock(p)

\* the user changes the directory between two commands
SequentialEnvironment ==
    /\ pc["p1"] \in {"idle", "done"}
    /\ \/ RemoveFile(VFile(1))
       \/ EditFile(RCFile)
       \/ AddFile(VFile(2))

NextSequential ==
    \/ SequentialCommand("p1")
    \/ SequentialStep("p1")
    \/ SequentialEnvironment

SpecSequential == InitSequential /\ [][NextSequential]_vars

\* the validations of an upgrade on their own, over a directory whose file
\* names carry versions of one and of two digits
Numbers == {2, 9, 10}

NumberedFiles == {VFile(n) : n \in Numbers} \cup {RAFile}

Configs == {Config(a, b, c) : a \in BOOLEAN, b \in BOOLEAN, c \in BOOLEAN}

\* every file as it was applied, or the file of version 9 edited since
NumberedContents ==
    {[f \in NumberedFiles |-> 1],
     [f \in NumberedFiles |-> IF f = VFile(9) THEN 2 ELSE 1]}

\* the rows an upgrade leaves when it applies the versions of S, and a
\* runs-always file after them
AppliedRows(S, always) ==
    LET applied == SortAsc(S)
    IN  [i \in 1..Len(applied) |-> Row(i, VFile(applied[i]), VERSIONED, i + 1, 1)]
        \o (IF always
            THEN <<Row(Len(applied) + 1, RAFile, RUNS_ALWAYS, Len(applied) + 2, 1)>>
            ELSE <<>>)

InitValidations ==
    /\ tables = TRUE
    /\ lock = Unlocked
    /\ \E S \in SUBSET Numbers \ {{}}, always \in BOOLEAN : history = AppliedRows(S, always)
    /\ order_seq = Len(history)
    /\ clock = Len(history) + 2
    /\ userdb = [e \in Effects |-> 0]
    /\ disk \in SUBSET NumberedFiles
    /\ content \in NumberedContents
    /\ edits = 0
    /\ ops = [p \in Procs |-> 0]
    /\ pc = [p \in Procs |-> "idle"]
    /\ op = [p \in Procs |-> "none"]
    /\ pid = [p \in Procs |-> NoPid]
    /\ work = [p \in Procs |-> <<>>]
    /\ rowcount = [p \in Procs |-> -1]
    /\ racing = [p \in Procs |-> FALSE]
    /\ result = [p \in Procs |-> "none"]

\* one call of run_upgrade_validations, as upgrade_cmd makes it
validate(p, skip_validation, skip_checksum_validation, skip_file_validation, config) ==
    /\ pc[p] = "idle"
    /\ Begin(p, "validate")
    /\ Return(p, run_upgrade_validations(history, disk, content,
                     fetch_latest_versioned_migration(history), skip_validation,
                     skip_checksum_validation, skip_file_validation, config))
    /\ UNCHANGED <<dbvars, diskvars>>

NextValidations ==
    \E skip_validation \in BOOLEAN, skip_checksum_validation \in BOOLEAN,
       skip_file_validation \in BOOLEAN, config \in Configs :
        validate("p1", skip_validation, skip_checksum_validation,
                 skip_file_validation, config)

SpecValidations == InitValidations /\ [][NextValidations]_vars

\* two processes over a directory that is empty or holds one or two versioned
\* files or one runs-on-change file:
\* the commands that read, the commands that write, force-unlock, and a
\* process that is killed while it holds the lock
SmallCatalogs == {{}, {VFile(1)}, {VFile(1), VFile(2)}, {RCFile}}

InitReads == Start(SmallCatalogs)

ReadCommand(p) ==
    \/ upgrade_cmd(p, NoCount, NoVersion, FALSE, FALSE, FALSE, FALSE)
    \/ rollback_cmd(p, NoCount, NoVersion, FALSE)
    \/ fix_files_cmd(p, FALSE)
    \/ current_cmd(p)
    \/ lock_status_cmd(p)
    \/ unlock_cmd(p)

ReadStep(p) ==
    \/ acquire_lock(p)
    \/ run_migration(p)
    \/ release_lock(p)
    \/ killed(p)

NextReads ==
    \/ \E p \in Procs : ReadCommand(p)
    \/ \E p \in Procs : ReadStep(p)

SpecReads == InitReads /\ [][NextReads]_vars

\* the scan of the directory over file names as they are spelled: a versioned
\* file V<major><sep><minor>__<description>.sql with '_' or '.' as separator
Name(major, sep, minor) == <<"V", major, sep, minor>>

SpelledFiles ==
    {Name(1, sep, minor) : sep \in {"_", "."}, minor \in {1, 2}} \cup {Name(2, "_", 0)}

\* no version_to_start_from, no end_version
NoBound == <<0, ".", 0>>

\* a version key that keeps the separator of the file name
KeepSeparator(filename) == <<filename[2], filename[3], filename[4]>>

\* _get_version_key_from_filename: the text between "V" and "__", with
\* version.replace("_", ".")
version_key_from_filename(filename) ==
    <<filename[2], IF filename[3] = "_" THEN "." ELSE filename[3], filename[4]>>

\* parse_version(a) > parse_version(b)
version_gt(a, b) == a[1] > b[1] \/ (a[1] = b[1] /\ a[3] > b[3])

\* the loop of get_migration_filepaths_by_version over the files of the walk:
\* the duplicate test, then the two bounds
RECURSIVE filepaths_by_version(_, _, _, _, _)
filepaths_by_version(files, seen_versions, found, version_to_start_from, end_version) ==
    IF files = {} THEN Plan("ok", found)
    ELSE LET filename     == CHOOSE f \in files : TRUE
             file_version == version_key_from_filename(filename)
             kept == /\ end_version # NoBound => ~version_gt(file_version, end_version)
                     /\ version_to_start_from # NoBound
                            => ~version_gt(version_to_start_from, file_version)
         IN  IF file_version \in seen_versions
             THEN Plan("DuplicateMigrationVersion", {})
             ELSE filepaths_by_version(files \ {filename},
                      seen_versions \cup {file_version},
                      IF kept THEN found \cup {file_version} ELSE found,
                      version_to_start_from, end_version)

\* a command scans the directory, before its guarded block
scan(p, version_to_start_from, end_version) ==
    /\ Begin(p, "scan")
    /\ Return(p, filepaths_by_version(disk, {}, {}, version_to_start_from,
                                      end_version).result)
    /\ UNCHANGED <<dbvars, diskvars>>

InitCatalog == Start(SUBSET SpelledFiles)

NextCatalog ==
    \E version_to_start_from, end_version \in {NoBound, <<1, ".", 2>>, <<2, ".", 0>>} :
        scan("p1", version_to_start_from, end_version)

SpecCatalog == InitCatalog /\ [][NextCatalog]_vars

\* the parser over the text of a migration file: a file is a sequence of
\* lines, a line a sequence of words
MaxLines == 3

Lines ==
    {<<>>, <<"x">>, <<"x", ";">>, <<";">>, <<"x", ";", "--", "c">>,
     <<"--", "c">>, <<"--", "rollback">>}

FileTexts == UNION {[1..n -> Lines] : n \in 0..MaxLines}

\* sep.join(current_statement)
RECURSIVE join(_, _)
join(current_statement, sep) ==
    IF Len(current_statement) = 1 THEN Head(current_statement)
    ELSE Head(current_statement) \o <<sep>> \o join(Tail(current_statement), sep)

\* statement.rstrip(";").strip()
RECURSIVE rstrip(_)
rstrip(statement) ==
    IF statement # <<>> /\ statement[Len(statement)] \in {";", " ", "\n"}
    THEN rstrip(SubSeq(statement, 1, Len(statement) - 1))
    ELSE statement

\* the loop `for line in file` of parse_upgrade_statements
RECURSIVE parse_lines(_, _, _, _)
parse_lines(file, statements, current_statement, dry_run) ==
    IF file = <<>> THEN statements
    ELSE LET line == Head(file)
             statement == rstrip(join(current_statement \o <<line>>,
                                      IF dry_run THEN "\n" ELSE " "))
         IN  IF line = <<"--", "rollback">> THEN statements
             ELSE IF line = <<>> \/ line[1] = "--"
                  THEN parse_lines(Tail(file), statements, current_statement, dry_run)
             ELSE IF line[Len(line)] = ";"
                  THEN parse_lines(Tail(file),
                           IF statement # <<>> THEN Append(statements, statement)
                           ELSE statements,
                           <<>>, dry_run)
             ELSE parse_lines(Tail(file), statements,
                              Append(current_statement, line), dry_run)

\* a parser that ends the last statement at the end of the file
KeepsRemainder(file, dry_run) == parse_lines(file \o <<<<";">>>>, <<>>, <<>>, dry_run)

parse_upgrade_statements(file, dry_run) == parse_lines(file, <<>>, <<>>, dry_run)

\* a command parses the file of version 1; its statements are the work
parse(p, dry_run) ==
    /\ Begin(p, "parse")
    /\ pc' = [pc EXCEPT ![p] = "done"]
    /\ result' = [result EXCEPT ![p] = "ok"]
    /\ work' = [work EXCEPT ![p] = parse_upgrade_statements(content[VFile(1)], dry_run)]
    /\ UNCHANGED <<dbvars, diskvars, racing>>

InitParser ==
    /\ tables = TRUE
    /\ lock = Unlocked
    /\ history = <<>>
    /\ order_seq = 0
    /\ clock = 1
    /\ userdb = [e \in Effects |-> 0]
    /\ disk = {VFile(1)}
    /\ content \in [{VFile(1)} -> FileTexts]
    /\ edits = 0
    /\ ops = [p \in Procs |-> 0]
    /\ pc = [p \in Procs |-> "idle"]
    /\ op = [p \in Procs |-> "none"]
    /\ pid = [p \in Procs |-> NoPid]
    /\ work = [p \in Procs |-> <<>>]
    /\ rowcount = [p \in Procs |-> -1]
    /\ racing = [p \in Procs |-> FALSE]
    /\ result = [p \in Procs |-> "none"]

NextParser == \E dry_run \in BOOLEAN : parse("p1", dry_run)

SpecParser == InitParser /\ [][NextParser]_vars

\* ------------------------------------------------------------- properties
\* p is inside `with migration_lock():`
Holds(p) == pid[p] # NoPid

\* the step in which p's command returns to its caller
Completes(p) == pc'[p] = "done" /\ (pc[p] # "done" \/ ops'[p] # ops[p])

\* the step in which p attempts the lock, and the one in which it gives it back
AcquireStep(p) == pc[p] = "acquire" /\ pc'[p] # "acquire"
ReleaseStep(p) == pc[p] = "release" /\ pc'[p] = "done"

\* the step in which a transaction of p's guarded block raises
FailStep(p) ==
    pc[p] = "body" /\ result[p] = "running" /\ result'[p] \notin {"running", "ok"}

MutualExclusion == \A p, q \in Procs : Holds(p) /\ Holds(q) => p = q

\* C1: an acquire attempted while the lock row is locked affects zero rows, fails
\* at once with AlreadyLocked and leaves the row as it is; an acquire that finds
\* the row unlocked writes the caller's process_id; and with no force-unlock at
\* most one process is inside the guarded block
C1_AcquireIsTestAndSet ==
    [][/\ \A p \in Procs : AcquireStep(p) =>
              IF lock.is_locked
              THEN /\ lock' = lock
                   /\ rowcount'[p] = 0
                   /\ pc'[p] = "done"
                   /\ result'[p] = "AlreadyLocked"
                   /\ ~Holds(p)'
              ELSE /\ lock'.is_locked
                   /\ lock'.process_id = pid'[p]
                   /\ Holds(p)'
                   /\ pc'[p] = "body"
       /\ MutualExclusion']_vars

\* a contender has failed with AlreadyLocked while the other is in its guarded block
C1_Witness ==
    \E p, q \in Procs :
        /\ p # q
        /\ pc[p] = "done" /\ result[p] = "AlreadyLocked" /\ rowcount[p] = 0
        /\ Holds(q) /\ lock.is_locked /\ lock.process_id = pid[q]

\* two upgrade runs that overlapped with pending work have both returned
BothRaced(p, q) ==
    /\ p # q
    /\ op[p] = "upgrade" /\ op[q] = "upgrade"
    /\ racing[p] /\ racing[q]
    /\ pc[p] = "done" /\ pc[q] = "done"

\* C2, as the specification states it: of two upgrade runs that overlap with a
\* non-empty pending set, exactly one gets through and the other fails with
\* AlreadyLocked (a run whose own SQL or file fails counts as having got through)
C2_ExactlyOneSucceeds ==
    \A p, q \in Procs : BothRaced(p, q) =>
        (result[p] = "AlreadyLocked") # (result[q] = "AlreadyLocked")

\* C2, amended: an upgrade run fails with AlreadyLocked exactly when its acquire
\* finds the lock held, and then the other process is inside its guarded block;
\* an acquire that finds the lock free goes on to the work items; of two
\* overlapping upgrade runs at most one fails with AlreadyLocked
C2_AtMostOneAlreadyLocked ==
    [][/\ \A p \in Procs : AcquireStep(p) /\ op[p] = "upgrade" =>
              /\ (result'[p] = "AlreadyLocked") = lock.is_locked
              /\ lock.is_locked => \E q \in Procs \ {p} : Holds(q)
              /\ ~lock.is_locked => pc'[p] = "body" /\ work'[p] = work[p]
       /\ \A p, q \in Procs : BothRaced(p, q)' =>
              ~(result'[p] = "AlreadyLocked" /\ result'[q] = "AlreadyLocked")]_vars

\* two overlapping upgrade runs have ended, one ok and one AlreadyLocked
C2_Witness ==
    \E p, q \in Procs :
        BothRaced(p, q) /\ result[p] = "ok" /\ result[q] = "AlreadyLocked"

\* C3: no two VERSIONED rows of jetbase_migrations carry the same version
C3_UniqueVersions ==
    \A i, j \in 1..Len(history) :
        /\ i # j
        /\ history[i].migration_type = VERSIONED
        /\ history[j].migration_type = VERSIONED
        => history[i].version # history[j].version

\* C4: a transaction that raises inside the guarded block sends the process to
\* the release, and when a failed run returns, the lock it acquired is released:
\* with no force-unlock the row then has is_locked = false and process_id = NULL
C4_ReleasedOnFailure ==
    [][\A p \in Procs :
          /\ FailStep(p) /\ Holds(p) => pc'[p] = "release" /\ lock' = lock
          /\ Completes(p) /\ Holds(p) /\ result'[p] # "ok" =>
                /\ ~lock'.is_locked
                /\ lock'.process_id = NoPid
                /\ ~Holds(p)']_vars

\* an upgrade run has failed inside its guarded block and given the lock back
C4_Witness ==
    \E p \in Procs :
        /\ pc[p] = "done" /\ op[p] = "upgrade"
        /\ result[p] \in {"DatabaseError", "FileNotFound"}
        /\ rowcount[p] = 1
        /\ lock = Unlocked

C6_ReleaseOnlyOwn ==
    [][\A p \in Procs : ReleaseStep(p) =>
          IF lock.process_id = pid[p]
          THEN lock' = Unlocked /\ rowcount'[p] = 1
          ELSE lock' = lock /\ rowcount'[p] = 0]_vars

\* after a force-unlock the other process has acquired; the first holder's
\* release has changed nothing and the row still carries the other's process_id
C6_Witness ==
    \E p, q \in Procs :
        /\ p # q
        /\ pc[p] = "done" /\ result[p] = "ok" /\ rowcount[p] = 0
        /\ Holds(q) /\ lock.is_locked /\ lock.process_id = pid[q]

\* the step in which p runs `jetbase unlock`
UnlockStep(p) == op'[p] = "unlock" /\ ops'[p] = ops[p] + 1

\* C7: force-unlock sets is_locked = false, locked_at = NULL and process_id = NULL
\* whoever holds the lock, succeeds, and leaves an unlocked row unlocked
C7_ForceUnlockClears ==
    [][\A p \in Procs : UnlockStep(p) =>
          /\ result'[p] = "ok"
          /\ pc'[p] = "done"
          /\ tables => /\ ~lock'.is_locked
                       /\ lock'.locked_at = NoTime
                       /\ lock'.process_id = NoPid
          /\ ~lock.is_locked => lock' = lock]_vars

\* force-unlock has cleared the row while another process is in its guarded block
C7_Witness ==
    \E p, q \in Procs :
        /\ p # q
        /\ pc[p] = "done" /\ op[p] = "unlock" /\ result[p] = "ok"
        /\ Holds(q)
        /\ lock = Unlocked

\* C8: every change of the rows of jetbase_migrations is made by a process that
\* holds the lock: the lock row is locked and carries that process's process_id
C8_WritesHoldLock ==
    [][history' # history =>
          \E p \in Procs :
              /\ pc[p] = "body" /\ work'[p] # work[p]
              /\ Holds(p)
              /\ lock.is_locked /\ lock.process_id = pid[p]]_vars

\* the statements of a section of a file
StmtsOf(f, section) == {<<f, section, n>> : n \in 1..NumStmts}

\* this step changed what some statement of the section has done to the database
Touched(f, section) == \E e \in StmtsOf(f, section) : userdb'[e] # userdb[e]

\* this step committed every statement of the section once
Whole(f, section) == \A e \in StmtsOf(f, section) : userdb'[e] = userdb[e] + 1

\* this step inserted the row of file f
RowInserted(f) ==
    /\ Len(history') = Len(history) + 1
    /\ SubSeq(history', 1, Len(history)) = history
    /\ history'[Len(history')].filename = f

\* this step updated the rows of repeatable file f, and no other
RowUpdated(f) ==
    /\ Len(history') = Len(history)
    /\ \A i \in 1..Len(history) :
          IF history[i].filename = f /\ history[i].migration_type # VERSIONED
          THEN /\ history'[i].applied_at = clock'
               /\ history'[i].checksum = content[f]
          ELSE history'[i] = history[i]

\* this step deleted the rows of versioned file f, and no other
RowDeleted(f) ==
    history' = SelectSeq(history, LAMBDA r : r.version # get_version_key_from_filename(f))

\* a transaction of a repair command (no migration file) committed
RepairStep ==
    \E p \in Procs : pc[p] = "body" /\ ~UsesFile(Head(work[p])) /\ work'[p] # work[p]

\* C9: a step that persists any statement of a file's section persists them all
\* together with the file's row mutation (insert or update on upgrade, delete on
\* rollback), and the rows change only with all statements of a file or in a
\* repair transaction
C9_FileTransactionAtomic ==
    [][/\ userdb' # userdb =>
              \A f \in Files :
                  /\ Touched(f, "upgrade") =>
                        Whole(f, "upgrade") /\ (RowInserted(f) \/ RowUpdated(f))
                  /\ Touched(f, "rollback") =>
                        Whole(f, "rollback") /\ RowDeleted(f)
       /\ history' # history =>
              \/ \E f \in Files, section \in Sections : Whole(f, section)
              \/ RepairStep]_vars

\* a rollback has committed its statements with the delete of its row, and the
\* transaction of a later run has raised and left nothing behind
C9_Witness ==
    \E p \in Procs :
        /\ pc[p] = "release" /\ result[p] = "DatabaseError"
        /\ history = <<>>
        /\ \A e \in StmtsOf(VFile(1), "upgrade") \cup StmtsOf(VFile(1), "rollback") :
              userdb[e] = 1

\* C10: when a work item of an upgrade run fails, the step leaves the database
\* and the rows as they were (the earlier items stay applied, the failed one
\* leaves nothing), and the run executes no further item: it goes to the release
C10_StopsAtFailure ==
    [][\A p \in Procs : FailStep(p) /\ op[p] = "upgrade" =>
          /\ userdb' = userdb
          /\ history' = history
          /\ work'[p] = <<>>
          /\ pc'[p] = "release"]_vars

\* the second work item of an upgrade run has failed: the first stays applied
\* with its row, the second and the items after it have left nothing
C10_Witness ==
    \E p \in Procs :
        /\ pc[p] = "release" /\ op[p] = "upgrade" /\ result[p] = "DatabaseError"
        /\ Len(history) = 1 /\ history[1].filename = VFile(1)
        /\ \A e \in StmtsOf(VFile(1), "upgrade") : userdb[e] = 1
        /\ \A e \in StmtsOf(RAFile, "upgrade") : userdb[e] = 0

\* ------------------------------------------------- one command at a time
\* the group of an upgrade run a file belongs to: versioned, runs-always, runs-on-change
GroupOf(f) == CASE f[1] = "V" -> 1 [] f[1] = "RA" -> 2 [] OTHER -> 3

\* f runs before g in an upgrade: an earlier group, or the same group and a lower
\* version (versioned files) or an earlier name (repeatable files)
Before(f, g) ==
    \/ GroupOf(f) < GroupOf(g)
    \/ GroupOf(f) = GroupOf(g) /\ f[2] < g[2]

\* C11: a step of an upgrade run that executes a file executes the first of the
\* run's remaining work items, and every item still to run comes after it: a
\* later group, or the same group and a strictly higher version (versioned) or
\* a later name (runs-always, runs-on-change)
C11_UpgradeOrder ==
    [][\A p \in Procs, f \in Files :
          op[p] = "upgrade" /\ pc[p] = "body" /\ Touched(f, "upgrade") =>
              /\ f = Head(work[p]).file
              /\ work'[p] = Tail(work[p])
              /\ \A i \in 1..Len(work'[p]) : Before(f, work'[p][i].file)]_vars

\* the first command, an upgrade, has run two versioned, two runs-always and two
\* runs-on-change files and is about to release the lock
C11_Witness ==
    /\ ops["p1"] = 1 /\ op["p1"] = "upgrade" /\ pc["p1"] = "release"
    /\ \E i, j \in 1..Len(history) :
          /\ i < j
          /\ history[i].migration_type = VERSIONED
          /\ history[j].migration_type = VERSIONED
    /\ {RAFile, RAFileB, RCFile, RCFileB} \subseteq {r.filename : r \in Range(history)}

\* the step in which p starts a command of the given name
Starts(p, name) == ops'[p] # ops[p] /\ op'[p] = name

\* no command is under way
Quiet == \A p \in Procs : pc[p] \in {"idle", "done"}

\* the versions of the versioned files among the work items, in the items' order
VersionsOf(items) ==
    LET versioned == SelectSeq(items, LAMBDA item : item.file[1] = "V")
    IN  [i \in 1..Len(versioned) |-> get_version_key_from_filename(versioned[i].file)]

\* the catalog versions strictly above the latest applied one, ascending
AboveLatest(h, d) ==
    SortAsc({v \in DiskVersions(d) : v > fetch_latest_versioned_migration(h)})

\* C12: an upgrade with neither count nor to_version that passes its validations
\* (file validation skipped or not) plans for execution exactly the catalog
\* versions numerically above the latest applied version, in ascending order
C12_PendingAboveLatest ==
    [][\A p \in Procs, skip_file_validation \in BOOLEAN :
          /\ Starts(p, "upgrade")
          /\ upgrade_cmd(p, NoCount, NoVersion, FALSE, FALSE, FALSE, skip_file_validation)
          /\ result'[p] \in {"ok", "running"}
          => VersionsOf(work'[p]) = AboveLatest(history, disk)]_vars

\* the database after the guarded block has run all of its work items
RECURSIVE RunAll(_, _, _)
RunAll(db, items, c) ==
    IF items = <<>> THEN db
    ELSE RunAll(Transaction(db, Head(items), c), Tail(items), c)

\* a command that runs alone from its plan to its end, with transactions that commit
Run(db, plan, c) ==
    [result |-> plan.result,
     work   |-> plan.work,
     db     |-> IF plan.result = "ok" THEN RunAll(db, plan.work, c) ELSE db]

\* upgrade(count, to_version) and rollback(count, to_version) on directory d
RunUpgrade(db, d, c, count, to_version) ==
    Run(db, upgrade_plan(db.history, d, c, count, to_version, FALSE, FALSE, FALSE), c)

RunRollback(db, d, c, count, to_version) ==
    Run(db, rollback_plan(db.history, d, count, to_version), c)

\* the database as it is now
Now == Database(history, order_seq, clock)

\* the number of rows of version v
RowsOf(h, v) == Cardinality({i \in 1..Len(h) : h[i].version = v})

FilesOf(items, prefix) ==
    {items[i].file : i \in {j \in 1..Len(items) : items[j].file[1] = prefix}}

\* C13: between commands, whenever upgrade() succeeds, every catalog version above the latest
\* applied one has exactly one row afterwards, and a second upgrade() over the
\* same directory succeeds, plans no versioned file and no runs-on-change file,
\* plans every runs-always file of the directory, and leaves one row per version
C13_SecondUpgrade ==
    LET first  == RunUpgrade(Now, disk, content, NoCount, NoVersion)
        second == RunUpgrade(first.db, disk, content, NoCount, NoVersion)
    IN  Quiet /\ first.result = "ok" =>
            /\ \A v \in Range(AboveLatest(history, disk)) :
                  RowsOf(first.db.history, v) = 1 /\ RowsOf(second.db.history, v) = 1
            /\ second.result = "ok"
            /\ VersionsOf(second.work) = <<>>
            /\ FilesOf(second.work, "RC") = {}
            /\ FilesOf(second.work, "RA") = {f \in disk : f[1] = "RA"}
            /\ VersionedRows(second.db.history) = VersionedRows(first.db.history)

\* two commands have run over the initial directory, the second an upgrade that
\* succeeded: every catalog version has its row from before the runs-on-change
\* rows were written, and the runs-always rows were written again after them
C13_Witness ==
    /\ ops["p1"] = 2 /\ op["p1"] = "upgrade" /\ pc["p1"] = "done" /\ result["p1"] = "ok"
    /\ edits = 0
    /\ Len(history) = order_seq
    /\ get_migrated_versions(history) =
           get_migration_filepaths_by_version(disk, NoVersion, NoVersion)
    /\ {RAFile, RAFileB, RCFile, RCFileB} \subseteq {r.filename : r \in Range(history)}
    /\ \A i, j \in 1..Len(history) :
          /\ history[i].migration_type = VERSIONED
                /\ history[j].migration_type = RUNS_ON_CHANGE
                => history[i].applied_at < history[j].applied_at
          /\ history[i].migration_type = RUNS_ON_CHANGE
                /\ history[j].migration_type = RUNS_ALWAYS
                => history[i].applied_at < history[j].applied_at

\* C14: between commands, from every reachable database and directory and for every N >= 1,
\* upgrade(count=N) followed by upgrade() leaves the versioned rows of the same
\* versions, in the same order of application, as upgrade() alone
C14_CountThenAll ==
    Quiet => \A n \in 1..MaxVersion :
        LET single == RunUpgrade(Now, disk, content, NoCount, NoVersion)
            first  == RunUpgrade(Now, disk, content, Some(n), NoVersion)
            second == RunUpgrade(first.db, disk, content, NoCount, NoVersion)
        IN  get_migrated_versions(second.db.history) =
                get_migrated_versions(single.db.history)

\* two upgrades have run over the initial directory and every catalog version is
\* applied, one of them by the second upgrade: its row was inserted after the
\* row of a runs-always file
C14_Witness ==
    /\ ops["p1"] = 2 /\ op["p1"] = "upgrade" /\ pc["p1"] = "done" /\ result["p1"] = "ok"
    /\ edits = 0
    /\ Len(history) = order_seq
    /\ get_migrated_versions(history) =
           get_migration_filepaths_by_version(disk, NoVersion, NoVersion)
    /\ \E i, j \in 1..Len(history) :
          /\ history[i].migration_type = RUNS_ALWAYS
          /\ history[j].migration_type = VERSIONED
          /\ history[i].order_executed < history[j].order_executed

Applied(h) == Range(get_migrated_versions(h))

LatestApplied(h, k) == Prefix(Reverse(get_migrated_versions(h)), k)

\* C16: a rollback(count=K) that passes its checks (K = 1 when no count is
\* given) plans for execution the rollback sections of exactly the K versions
\* applied last, the latest first, and running them leaves the history without
\* their rows and with every other row as it was
C16_RollsBackLatest ==
    [][\A p \in Procs, count \in {NoCount} \cup {Some(k) : k \in 1..MaxVersion} :
          LET latest == LatestApplied(history, IF count = NoCount THEN 1 ELSE count[1])
          IN  /\ Starts(p, "rollback")
              /\ rollback_cmd(p, count, NoVersion, FALSE)
              /\ result'[p] \in {"ok", "running"}
              => /\ VersionsOf(work'[p]) = latest
                 /\ RunAll(Now, work'[p], content).history =
                        SelectSeq(history, LAMBDA r : r.version \notin Range(latest))]_vars

\* the time version v was applied
AppliedAt(h, v) == (CHOOSE r \in Range(VersionedRows(h)) : r.version = v).applied_at

Selected(h, count, to_version) ==
    IF count = NoCount /\ to_version = NoVersion THEN get_latest_versions(h, 1)
    ELSE IF Truthy(count) THEN get_latest_versions(h, count[1])
    ELSE IF to_version \in Applied(h)
         THEN get_latest_versions_by_starting_version(h, to_version)
    ELSE <<>>

\* C18: a rollback that selects a version whose file is not in the directory
\* fails with VersionNotFound in its first step: it has not attempted the lock,
\* and the lock row's fields, the history and the user database are unchanged
C18_MissingFileFailsFirst ==
    [][\A p \in Procs, sel \in Selections :
          /\ Starts(p, "rollback")
          /\ sel[1] = NoCount \/ sel[2] = NoVersion
          /\ rollback_cmd(p, sel[1], sel[2], FALSE)
          /\ \E v \in Range(Selected(history, sel[1], sel[2])) : VFile(v) \notin disk
          => /\ result'[p] = "VersionNotFound"
             /\ pc'[p] = "done"
             /\ rowcount'[p] = -1 /\ pid'[p] = NoPid
             /\ tables => lock' = lock
             /\ UNCHANGED <<history, userdb>>]_vars

\* a rollback has failed with VersionNotFound while every version is applied
\* and one of them has no file, and no rollback section has ever run
C18_Witness ==
    /\ op["p1"] = "rollback" /\ pc["p1"] = "done" /\ result["p1"] = "VersionNotFound"
    /\ Applied(history) = Versions
    /\ \E v \in Applied(history) : VFile(v) \notin disk
    /\ \A f \in Files : userdb[<<f, "rollback", 1>>] = 0

\* C19: an upgrade or a rollback called with a count of zero or below ends in
\* its first step with InvalidArgument, and the history and the user database
\* stay as they are
C19_NonPositiveCountRejected ==
    [][\A p \in Procs, count \in {Some(0), Some(-1)} :
          /\ ops'[p] # ops[p]
          /\ \/ upgrade_cmd(p, count, NoVersion, FALSE, FALSE, FALSE, FALSE)
             \/ rollback_cmd(p, count, NoVersion, FALSE)
          => /\ result'[p] = "InvalidArgument"
             /\ pc'[p] = "done"
             /\ UNCHANGED <<history, userdb>>]_vars

\* C20: an upgrade or a rollback called with both a count and a to_version ends
\* in its first step with InvalidArgument, without a lock UPDATE, and leaves the
\* history rows, the fields of the lock row and the user database as they are
C20_BothArgumentsRejected ==
    [][\A p \in Procs, sel \in Selections :
          /\ ops'[p] # ops[p]
          /\ sel[1] # NoCount /\ sel[2] # NoVersion
          /\ \/ upgrade_cmd(p, sel[1], sel[2], FALSE, FALSE, FALSE, FALSE)
             \/ rollback_cmd(p, sel[1], sel[2], FALSE)
          => /\ result'[p] = "InvalidArgument"
             /\ pc'[p] = "done"
             /\ rowcount'[p] = -1 /\ pid'[p] = NoPid
             /\ UNCHANGED <<history, lock, userdb>>]_vars

\* a rollback has ended with InvalidArgument (no other call of rollback does)
\* while versions are applied
C20_Witness ==
    /\ op["p1"] = "rollback" /\ pc["p1"] = "done" /\ result["p1"] = "InvalidArgument"
    /\ Cardinality(Applied(history)) >= 2

\* the upgrade's validations pass on the database and the directory as they are
ValidationsPass ==
    LET latest == fetch_latest_versioned_migration(history)
    IN  latest # NoVersion =>
            run_migration_validations(history, disk, content, latest,
                                      FALSE, FALSE, FALSE) = "ok"

\* the error kind VersionNotFound as upgrade_cmd raises it: FileNotFoundError
VersionNotFoundOfUpgrade == "FileNotFound"

\* how an upgrade(to_version=v) that passes its validations ends its first step
\* when v is not among the pending versions: with the error `missing`, without
\* work, without a lock UPDATE, the rows and the user database as they were
ToVersionStep(p, v, missing) ==
    LET pending == AboveLatest(history, disk)
        upto    == SortAsc({u \in Range(pending) : u <= v})
    IN  IF v \in Range(pending)
        THEN /\ result'[p] = "running"
             /\ VersionsOf(work'[p]) = upto
             /\ Applied(RunAll(Now, work'[p], content).history) =
                    Applied(history) \cup Range(upto)
        ELSE /\ result'[p] = missing
             /\ pc'[p] = "done" /\ work'[p] = <<>>
             /\ rowcount'[p] = -1
             /\ UNCHANGED <<history, userdb>>

NoConfig == Config(FALSE, FALSE, FALSE)

\* a file without a row carries a version numerically below the latest applied one
NewFileBelowLatest ==
    \E n \in DiskVersions(disk) :
        n \notin Applied(history) /\ n < fetch_latest_versioned_migration(history)

\* C22: the validations, with no skip flag, raise OutOfOrderMigration exactly
\* when some versioned file without a history row has a version numerically
\* lower than the latest applied version
C22_OutOfOrderExact ==
    [][validate("p1", FALSE, FALSE, FALSE, NoConfig) =>
          (result'["p1"] = "OutOfOrderMigration" <=> NewFileBelowLatest)]_vars

\* -------------------------------------------------- validations of a command
\* some row, versioned or repeatable, is of a file that is not in the directory
RowWithoutFile == \E r \in Range(history) : r.filename \notin disk

\* the command ends in this step, before the guarded block: no work, no lock
\* UPDATE, no process_id, and the rows as they were
FailsBeforeLock(p) ==
    /\ result'[p] \notin {"ok", "running"}
    /\ pc'[p] = "done" /\ work'[p] = <<>>
    /\ rowcount'[p] = -1 /\ pid'[p] = NoPid
    /\ tables => lock' = lock
    /\ history' = history

\* C23: once a versioned migration is applied, an upgrade without skip flags
\* that finds a versioned or repeatable row whose file is not in the directory
\* fails in its first step, before the lock, and changes no row
C23_MissingFileFails ==
    [][\A p \in Procs, count \in {NoCount, Some(1)}, dry_run \in BOOLEAN :
          /\ RowWithoutFile
          /\ VersionedRows(history) # <<>>
          /\ Starts(p, "upgrade")
          /\ upgrade_cmd(p, count, NoVersion, dry_run, FALSE, FALSE, FALSE)
          => FailsBeforeLock(p)]_vars

\* C23 as stated: whether or not a versioned migration is applied
C23_AnyMissingFileFails ==
    [][\A p \in Procs, count \in {NoCount, Some(1)}, dry_run \in BOOLEAN :
          /\ RowWithoutFile
          /\ Starts(p, "upgrade")
          /\ upgrade_cmd(p, count, NoVersion, dry_run, FALSE, FALSE, FALSE)
          => FailsBeforeLock(p)]_vars

\* an upgrade has failed while the rows of version 1 and of the runs-always
\* file exist and only the runs-always file is gone from the directory
C23_Witness ==
    \E p \in Procs :
        /\ op[p] = "upgrade" /\ pc[p] = "done" /\ result[p] = "FileNotFound"
        /\ VFile(1) \in disk /\ RAFile \notin disk
        /\ {VFile(1), RAFile} \subseteq {r.filename : r \in Range(history)}

\* the file of some applied version is in the directory with an upgrade section
\* whose checksum is not the stored one
ChecksumDrift ==
    \E r \in Range(VersionedRows(history)) :
        r.filename \in disk /\ content[r.filename] # r.checksum

FileChecks ==
    LET versions == get_migration_filepaths_by_version(disk, NoVersion, NoVersion)
        migrated == get_migrated_versions(history)
        order    == validate_no_new_migration_files_with_lower_version_than_latest_migration(
                        versions, migrated, fetch_latest_versioned_migration(history))
        present  == validate_migrated_versions_in_current_migration_files(
                        migrated, versions)
        repeat   == validate_migrated_repeatable_versions_in_migration_files(
                        {r.filename : r \in Range(fetch_repeatable_migrations(history))},
                        get_repeatable_filenames(disk))
    IN  IF order # "ok" THEN order ELSE IF present # "ok" THEN present ELSE repeat

ChecksumCheck ==
    validate_current_migration_files_match_checksums(
        get_migration_filepaths_by_version(
            disk, NoVersion, fetch_latest_versioned_migration(history)),
        get_checksums_by_version(history), content)

\* C25: skip_validation, given as the argument or set in the configuration,
\* lets every database and directory pass; skip_file_validation leaves the
\* outcome of the checksum check alone, skip_checksum_validation that of the
\* file checks alone, each of them as the argument or as the setting; with no
\* flag the file checks come first and the checksum check second
C25_SkipFlags ==
    [][\A skip_validation \in BOOLEAN, skip_checksum_validation \in BOOLEAN, skip_file_validation \in BOOLEAN, config \in Configs :
          validate("p1", skip_validation, skip_checksum_validation,
                   skip_file_validation, config) =>
              LET all   == skip_validation \/ config.skip_validation
                  files == skip_file_validation \/ config.skip_file_validation
                  sums  == skip_checksum_validation \/ config.skip_checksum_validation
              IN  result'["p1"] =
                      IF all \/ (files /\ sums) THEN "ok"
                      ELSE IF files THEN ChecksumCheck
                      ELSE IF sums THEN FileChecks
                      ELSE IF FileChecks # "ok" THEN FileChecks ELSE ChecksumCheck]_vars

\* the validations have passed on a directory that fails the file checks and
\* the checksum check: they were skipped
C25_Witness ==
    /\ op["p1"] = "validate" /\ pc["p1"] = "done" /\ result["p1"] = "ok"
    /\ FileChecks # "ok"
    /\ ChecksumCheck \notin {"ok", "IndexError"}

\* ------------------------------------------------------------ the repairs
\* the history after the repair transactions of the work items
RECURSIVE RepairAll(_, _)
RepairAll(h, items) ==
    IF items = <<>> THEN h ELSE RepairAll(Repair(h, Head(items)), Tail(items))

\* C26: fix-checksums in audit mode returns after its report: it has no repair
\* to run, and no history row (no stored checksum) and no field of the lock row
\* changes
C26_AuditLeavesRows ==
    [][\A p \in Procs :
          Starts(p, "fix_checksums") /\ fix_checksums_cmd(p, TRUE) =>
              /\ pc'[p] = "done"
              /\ RepairAll(history, work'[p]) = history
              /\ UNCHANGED <<history, lock>>]_vars

\* the files of the applied versions that are in the directory carry the stored
\* checksums in history h
ChecksumsCurrent(h) ==
    \A r \in Range(VersionedRows(h)) :
        r.filename \in disk => r.checksum = content[r.filename]

\* fix-checksums, run alone on history h, from its plan to its end
RunFixChecksums(h) ==
    LET plan == fix_checksums_plan(h, disk, content)
    IN  [result |-> plan.result,
         work   |-> plan.work,
         history |-> IF plan.result = "ok" THEN RepairAll(h, plan.work) ELSE h]

\* C27: between commands, whenever fix-checksums (repair mode) succeeds, every
\* applied version whose file is in the directory has the file's current
\* checksum stored afterwards, and only checksums have changed; a second
\* fix-checksums succeeds with nothing to repair and writes nothing; and the
\* checksum validation of a following upgrade passes
C27_FixChecksumsSettles ==
    LET first  == RunFixChecksums(history)
        second == RunFixChecksums(first.history)
        latest == fetch_latest_versioned_migration(first.history)
    IN  Quiet /\ tables /\ first.result = "ok" =>
            /\ ChecksumsCurrent(first.history)
            /\ Len(first.history) = Len(history)
            /\ \A i \in 1..Len(history) :
                  first.history[i] = [history[i] EXCEPT !.checksum = first.history[i].checksum]
            /\ second.result = "ok" /\ second.work = <<>>
            /\ second.history = first.history
            /\ latest # NoVersion =>
                  run_migration_validations(first.history, disk, content, latest,
                                            FALSE, FALSE, FALSE) = "ok"

\* a fix-checksums has run to its end, through the lock, after the file of
\* version 1 was edited: the row of version 1 carries the new checksum
C27_Witness ==
    \E p \in Procs :
        /\ Quiet
        /\ op[p] = "fix_checksums" /\ pc[p] = "done" /\ result[p] = "ok"
        /\ rowcount[p] = 1
        /\ content[VFile(1)] = 2
        /\ \E r \in Range(history) : r.filename = VFile(1) /\ r.checksum = 2

\* the rows of h whose files are in the directory
RowsWithFile(h) == SelectSeq(h, LAMBDA r : r.filename \in disk)

\* a step of fix-files that changes the rows
FixFilesDeletes(p) == op[p] = "fix_files" /\ pc[p] = "body" /\ work'[p] # work[p]

\* C28: fix-files in repair mode plans the deletion of exactly the rows,
\* versioned and repeatable, whose files are not in the directory, and returns
\* at once when there is none; each of its deleting steps is made inside
\* migration_lock(), with the lock row locked under its process_id, removes
\* only rows whose files are absent and leaves the other rows as they were; in
\* audit mode it returns in its first step with no row deleted and no lock
\* UPDATE
C28_FixFiles ==
    [][\A p \in Procs :
          /\ Starts(p, "fix_files") /\ fix_files_cmd(p, FALSE) =>
                /\ RepairAll(history, work'[p]) = RowsWithFile(history)
                /\ work'[p] = <<>> => pc'[p] = "done"
                /\ history' = history
          /\ FixFilesDeletes(p) =>
                /\ Holds(p) /\ lock.is_locked /\ lock.process_id = pid[p]
                /\ history' = SelectSeq(history, LAMBDA r : r \in Range(history'))
                /\ \A r \in Range(history) \ Range(history') : r.filename \notin disk
          /\ Starts(p, "fix_files") /\ fix_files_cmd(p, TRUE) =>
                /\ pc'[p] = "done" /\ work'[p] = <<>>
                /\ rowcount'[p] = -1 /\ pid'[p] = NoPid
                /\ tables => lock' = lock
                /\ history' = history]_vars

\* a fix-files has run through the lock to its end after the file of version 1
\* was applied and deleted: the row of version 1 is gone, the row of the
\* runs-always file, whose file exists, is still there
C28_Witness ==
    \E p \in Procs :
        /\ op[p] = "fix_files" /\ pc[p] = "done" /\ result[p] = "ok"
        /\ rowcount[p] = 1
        /\ userdb[<<VFile(1), "upgrade", 1>>] = 1
        /\ VFile(1) \notin disk /\ RAFile \in disk
        /\ {r.filename : r \in Range(history)} = {RAFile}

\* C29: every repeatable file (RA or RC) has at most one history row
C29_OneRowPerRepeatable ==
    \A f \in Files :
        f[1] \in {"RA", "RC"} =>
            Cardinality({i \in 1..Len(history) : history[i].filename = f}) <= 1

\* C30: an upgrade or a rollback with dry_run=true returns in its first step
\* without a lock UPDATE and leaves the database as it was: the tables (none is
\* created), the rows, the lock row and the user's data
C30_DryRunLeavesDatabase ==
    [][\A p \in Procs, count \in {NoCount, Some(1)} :
          /\ ops'[p] # ops[p]
          /\ \/ upgrade_cmd(p, count, NoVersion, TRUE, FALSE, FALSE, FALSE)
             \/ rollback_cmd(p, count, NoVersion, TRUE)
          => /\ pc'[p] = "done"
             /\ rowcount'[p] = -1 /\ pid'[p] = NoPid
             /\ UNCHANGED dbvars]_vars

\* C31: with an empty directory and no history, an upgrade returns in its first
\* step as up to date, without work, without the lock and without a row, and
\* current reports that no migration has been applied, whether or not the
\* tables exist
C31_NothingToDo ==
    [][\A p \in Procs :
          /\ disk = {} /\ history = <<>>
          /\ ops'[p] # ops[p]
          => /\ upgrade_cmd(p, NoCount, NoVersion, FALSE, FALSE, FALSE, FALSE)
                => /\ pc'[p] = "done" /\ result'[p] = "ok"
                   /\ work'[p] = <<>> /\ rowcount'[p] = -1
                   /\ history' = <<>> /\ userdb' = userdb
             /\ current_cmd(p)
                => /\ result'[p] = "No migrations have been applied yet."
                   /\ UNCHANGED dbvars]_vars

\* over the empty directory, current has reported no migrations and an upgrade
\* has ended up to date
C31_Witness ==
    /\ disk = {} /\ history = <<>>
    /\ op["p1"] = "current" /\ pc["p1"] = "done"
    /\ result["p1"] = "No migrations have been applied yet."
    /\ op["p2"] = "upgrade" /\ pc["p2"] = "done" /\ result["p2"] = "ok"


\* C32: the versioned rows, in order_executed order, carry ascending versions,
\* and the row the planner takes as the latest carries the greatest of them
C32_VersionOrder ==
    LET rows == VersionedRows(history)
    IN  /\ \A i, j \in 1..Len(rows) : i < j => rows[i].version <= rows[j].version
        /\ \A i \in 1..Len(rows) :
               rows[i].version <= fetch_latest_versioned_migration(history)


\* two files of the directory carry the same version numbers, whatever their
\* separators
SameVersionTwice ==
    \E f, g \in disk : f # g /\ f[2] = g[2] /\ f[4] = g[4]

\* C33: when two versioned files have versions that are equal once '_' and '.'
\* count as the same separator, every scan of the directory, whatever its
\* bounds, fails with DuplicateMigrationVersion and leaves the database alone
C33_DuplicateVersion ==
    [][\A b1, b2 \in {NoBound, <<1, ".", 2>>, <<2, ".", 0>>} :
          /\ SameVersionTwice
          /\ scan("p1", b1, b2)
          => /\ result'["p1"] = "DuplicateMigrationVersion"
             /\ pc'["p1"] = "done" /\ rowcount'["p1"] = -1
             /\ UNCHANGED dbvars]_vars

\* a scan has failed over a directory that holds V1_2 and V1.2
C33_Witness ==
    /\ {Name(1, "_", 2), Name(1, ".", 2)} \subseteq disk
    /\ op["p1"] = "scan" /\ pc["p1"] = "done"
    /\ result["p1"] = "DuplicateMigrationVersion"


StatementLines(file) ==
    LET marks == {i \in 1..Len(file) : file[i] = <<"--", "rollback">>}
        until == IF marks = {} THEN Len(file)
                 ELSE (CHOOSE i \in marks : \A j \in marks : i <= j) - 1
    IN  SelectSeq(SubSeq(file, 1, until), LAMBDA l : l # <<>> /\ l[1] # "--")

\* the statements the claim describes: the statement lines are cut after each
\* line whose last word is ';' and nowhere else, the lines of a piece are
\* merged, the text after the last cut is dropped
StatementsOf(file) ==
    LET lines == StatementLines(file)
        cuts  == {i \in 1..Len(lines) : lines[i][Len(lines[i])] = ";"}
        from(i) == IF \E j \in cuts : j < i
                   THEN (CHOOSE j \in cuts : j < i /\ \A k \in cuts : k < i => k <= j) + 1
                   ELSE 1
        piece(i) == rstrip(join(SubSeq(lines, from(i), i), " "))
        kept  == {i \in cuts : piece(i) # <<>>}
    IN  [n \in 1..Cardinality(kept) |->
            piece(CHOOSE i \in kept : Cardinality({j \in kept : j <= i}) = n)]

\* C35: the statements of the execute-mode parser are the pieces that end at a
\* line whose last word is ';': a line with a comment after its ';' is merged
\* with the lines that follow, and unterminated text at the end of the section
\* is in no statement
C35_StatementEnds ==
    [][parse("p1", FALSE) => work'["p1"] = StatementsOf(content[VFile(1)])]_vars

\* the parser has merged `x; -- c` with the statement that follows and has
\* dropped the unterminated last line
C35_Witness ==
    /\ content[VFile(1)] = <<<<"x", ";", "--", "c">>, <<"x", ";">>, <<"x">>>>
    /\ op["p1"] = "parse" /\ pc["p1"] = "done"
    /\ work["p1"] = <<<<"x", ";", "--", "c", " ", "x">>>>


\* C36: a rollback executes the rollback section of a file only when the
\* file's version has a history row
C36_RollsBackAppliedOnly ==
    [][\A p \in Procs, f \in Files :
          /\ op[p] = "rollback" /\ pc[p] = "body"
          /\ Touched(f, "rollback")
          => \E r \in Range(VersionedRows(history)) : r.filename = f]_vars


\* C37: an upgrade that passes its checks and finds no pending versioned file,
\* no runs-always file and no changed runs-on-change file ends in its first
\* step as up to date: it issues no lock UPDATE, and the lock row, held or
\* not, and the history stay as they are
C37_UpToDateNeedsNoLock ==
    [][\A p \in Procs :
          /\ upgrade_plan(history, disk, content, NoCount, NoVersion,
                          FALSE, FALSE, FALSE) = Plan("ok", <<>>)
          /\ Starts(p, "upgrade")
          => /\ pc'[p] = "done" /\ result'[p] = "ok"
             /\ rowcount'[p] = -1 /\ pid'[p] = NoPid
             /\ tables => lock' = lock
             /\ UNCHANGED <<history, userdb>>]_vars

\* p2 applied version 1 in its only command and was killed with the lock;
\* p1's upgrade has ended up to date, without a lock UPDATE, while the row is
\* still locked
C37_Witness ==
    /\ ops["p2"] = 1 /\ op["p2"] = "upgrade" /\ result["p2"] = "killed"
    /\ lock.is_locked
    /\ Len(history) = 1
    /\ op["p1"] = "upgrade" /\ pc["p1"] = "done" /\ result["p1"] = "ok"
    /\ rowcount["p1"] = -1


\* C38: the table-ensure step at the start of upgrade, rollback and fix-files
\* leaves an existing lock row as it is, held or not
C38_EnsureKeepsRow ==
    [][\A p \in Procs :
          /\ tables
          /\ ops'[p] # ops[p]
          /\ op'[p] \in {"upgrade", "rollback", "fix_files"}
          => lock' = lock]_vars

\* p2 still has the lock of its only command, the upgrade that applied version
\* 1; p1 began a rollback of that version, which ensured the tables, and found
\* the row locked by p2
C38_Witness ==
    /\ ops["p2"] = 1 /\ op["p2"] = "upgrade" /\ pc["p2"] = "release"
    /\ lock.is_locked /\ lock.process_id = pid["p2"]
    /\ op["p1"] = "rollback" /\ result["p1"] = "AlreadyLocked"


\* C39: is_locked goes from TRUE to FALSE only in the release of the process
\* whose process_id the row carries or in a force-unlock, and while it is TRUE
\* every acquire fails with AlreadyLocked and leaves the row as it is: a lock
\* left by a killed process does not expire
C39_NoExpiry ==
    [][/\ lock.is_locked /\ ~lock'.is_locked
          => \E p \in Procs :
                 \/ /\ ReleaseStep(p) /\ result'[p] # "killed"
                    /\ pid[p] = lock.process_id
                 \/ UnlockStep(p)
       /\ \A p \in Procs :
              lock.is_locked /\ AcquireStep(p)
              => result'[p] = "AlreadyLocked" /\ lock' = lock]_vars

\* p2 was killed with the lock of its only command; p1's later rollback found
\* the row locked, and it still is
C39_Witness ==
    /\ ops["p2"] = 1 /\ result["p2"] = "killed"
    /\ lock.is_locked /\ lock.process_id = <<"p2", 1>>
    /\ op["p1"] = "rollback" /\ result["p1"] = "AlreadyLocked"


\* C40: when the file checks pass or are skipped and every file up to the
\* latest applied version has a row, the checksum check fails exactly when some
\* file differs from the stored checksum of the row of its own version, and
\* with MigrationChecksumMismatch
C40_ComparesSameVersion ==
    [][\A skip_file_validation \in BOOLEAN :
          /\ validate("p1", FALSE, FALSE, skip_file_validation, NoConfig)
          /\ skip_file_validation \/ FileChecks = "ok"
          /\ \A v \in DiskVersions(disk) :
                 v <= fetch_latest_versioned_migration(history) => v \in Applied(history)
          => result'["p1"] = IF ChecksumDrift THEN "MigrationChecksumMismatch"
                            ELSE "ok"]_vars

====
